---- MODULE Spec2Model ----
(***************************************************************************)
(* Model of psychopy.hardware.camera.Camera (src/psychopy/hardware/camera/ *)
(* __init__.py): the capture controller that owns a ffpyplayer MediaPlayer *)
(* (the frame source), a MediaWriter (the frame writer), the timestamp     *)
(* bookkeeping and the status flag.                                        *)
(*                                                                         *)
(* The controller is driven by one thread.  Every public method is one     *)
(* action, except that the polling loop of _enqueueFrame is unrolled: the  *)
(* calling method (open, getVideoFrame) enters the loop, each iteration of *)
(* the loop is one step, and the iteration that leaves the loop also runs  *)
(* the rest of _enqueueFrame and the rest of the calling method.           *)
(*                                                                         *)
(* The collaborators are modelled at their interface: MediaPlayer.get_frame*)
(* either has a frame or has none, frames carry non-decreasing absolute    *)
(* timestamps, the stream metadata offers what the controller reads from   *)
(* it, and the muxer either succeeds or raises.  A microphone is attached  *)
(* (mic is not None).  Frame timestamps are whole numbers; -1 stands for   *)
(* the float sentinel -1.0.  Time is counted in ticks, TicksPerSecond to   *)
(* the second; the clock read by getTime() advances by zero or one tick    *)
(* between two reads, which is less than a second.  A caller of            *)
(* getVideoFrame may pass a timeout as short as one tick.  close_player()  *)
(* and MediaWriter.close() return normally, also when called on an object  *)
(* that is already closed.  The destructor runs between two calls, never   *)
(* inside one, and nothing is called on the object after it.              *)
(***************************************************************************)
EXTENDS Integers, FiniteSets

\* ---------------------------------------------------------------- bounds
MaxOpens == 2       \* MediaPlayer instances constructed in one run
MaxWriters == 2     \* MediaWriter instances constructed in one run
MaxPts == 2         \* largest absolute timestamp a frame carries
MaxTimeout == 1     \* largest timeout, in ticks, passed to getVideoFrame
TicksPerSecond == 2 \* resolution of the clock
MaxPolls == 2       \* the poll counter stops counting here

\* ------------------------------------------------------------- constants
OpenTimeout == 1    \* open(): self._enqueueFrame(timeout=1.0), in seconds
InvalidPts == -1    \* the sentinel -1.0 of _startPts, _absPts, _pts
InitFrameIndex == -1
NoRecording == -1   \* recFile before the first record()

NOT_STARTED == "NOT_STARTED"
RECORDING == "RECORDING"
STOPPING == "STOPPING"
STOPPED == "STOPPED"

None == "None"
Paths == {"a.mp4", "b.mp4"}
Timeouts == -1 .. MaxTimeout
OpenTimeoutTicks == OpenTimeout * TicksPerSecond
MaxElapsed ==
    IF MaxTimeout > OpenTimeoutTicks THEN MaxTimeout ELSE OpenTimeoutTicks

NULL_MOVIE_METADATA == "NULL_MOVIE_METADATA"
NULL_MOVIE_FRAME_INFO ==
    [isNull |-> TRUE, frameIndex |-> -1, absTime |-> -1]
MovieFrame(idx, t) ==
    [isNull |-> FALSE, frameIndex |-> idx, absTime |-> t]

\* exception classes, grouped as the error taxonomy groups them
NotReadyErrors == {"PlayerNotAvailableError", "CameraNotReadyError"}
MisuseErrors == {"RuntimeError", "ValueError"}

Min(a, b) == IF a < b THEN a ELSE b

VARIABLES
    player,             \* _player: 0 is None, k the k-th MediaPlayer made
    nPlayers,           \* MediaPlayer instances constructed so far
    playerOpen,         \* the held player has not had close_player() called
    writer,             \* _writer: 0 is None, k the k-th MediaWriter made
    nWriters,           \* MediaWriter instances constructed so far
    writerOpen,         \* the held writer has not had close() called
    openPlayers,        \* the MediaPlayer instances made and not yet closed
    openWriters,        \* the MediaWriter instances made and not yet closed
    tempVideoFileName,  \* _tempVideoFileName: 0 is u'', k the k-th uuid
    status,             \* _status
    outFile,            \* _outFile
    startPts,           \* _startPts
    absPts,             \* _absPts
    pts,                \* _pts
    lastFrame,          \* _lastFrame
    frameIndex,         \* _frameIndex
    recentMetadata,     \* _recentMetadata
    micOn,              \* the attached microphone was told to record
    srcPts,             \* timestamp of the newest frame the source handed out
    pc,                 \* "idle", the method whose polling loop is running,
                        \* or "deleted" once __del__ has run
    timeout,            \* the timeout of the running _enqueueFrame call
    elapsed,            \* getTime() - tStart at the last clock read
    polls,              \* get_frame() calls made by the running loop
    lastOp,             \* the public method called last
    err,                \* the exception it raised, "ok" if it returned,
                        \* "running" while it is in the polling loop
    ret,                \* the frame getVideoFrame returned
    effects,            \* what the last step did to the collaborators
    muxOut,             \* the output path the last step handed to the muxer
    recFile,            \* the file of the writer held when the most recent
                        \* record() returned: 0 if none was held, -1 before
                        \* the first record()
    recStreamOnly,      \* the most recent record() was given streamOnly=True
                        \* and no stop() has followed it
    writtenPts,         \* the timestamp of the last frame pushed to the held
                        \* writer, -1 if none was
    opensOk,            \* open() calls that returned without an exception
    closesOk            \* close() calls that returned without an exception

ctl == <<player, nPlayers, playerOpen, writer, nWriters, writerOpen,
         openPlayers, openWriters, tempVideoFileName, status, outFile, startPts, absPts, pts,
         lastFrame, frameIndex, recentMetadata>>
env == <<micOn, srcPts>>
loop == <<pc, timeout, elapsed, polls>>
obs == <<lastOp, err, ret, effects, muxOut, opensOk, closesOk>>
hist == <<recFile, recStreamOnly, writtenPts>>
vars == <<ctl, env, loop, obs, hist>>

\* ------------------------------------------------------------------ Init
\* Camera.__init__
Init ==
    /\ player = 0 /\ nPlayers = 0 /\ playerOpen = FALSE
    /\ writer = 0 /\ nWriters = 0 /\ writerOpen = FALSE
    /\ openPlayers = {} /\ openWriters = {}
    /\ tempVideoFileName = 0
    /\ status = NOT_STARTED
    /\ outFile = None
    /\ startPts = InvalidPts /\ absPts = InvalidPts /\ pts = InvalidPts
    /\ lastFrame = NULL_MOVIE_FRAME_INFO
    /\ frameIndex = InitFrameIndex
    /\ recentMetadata = None
    /\ micOn = FALSE
    /\ srcPts = 0
    /\ pc = "idle" /\ timeout = 0 /\ elapsed = 0 /\ polls = 0
    /\ lastOp = "init" /\ err = "ok" /\ ret = NULL_MOVIE_FRAME_INFO
    /\ effects = {} /\ muxOut = None
    /\ opensOk = 0 /\ closesOk = 0
    /\ recFile = NoRecording /\ recStreamOnly = FALSE
    /\ writtenPts = InvalidPts

\* ------------------------------------------------------------- accessors
hasPlayerNever == FALSE
hasPlayer == player # 0
hasWriter == writer # 0
isReady == hasPlayer /\ recentMetadata # NULL_MOVIE_METADATA
streamTime == absPts
recordingTime == pts

assertMediaPlayerNeverRaises == "ok"
\* _assertMediaPlayer: the exception it raises, "ok" if it returns
assertMediaPlayer ==
    IF player # 0 THEN "ok" ELSE "PlayerNotAvailableError"

notStoppedOnlyRecording == status = RECORDING
\* the comparison `self._status != STOPPED` of save() and _renderVideo()
notStopped == status # STOPPED

\* _openWriter, as far as its outcome goes: the exception it raises, and
\* whether it constructs a MediaWriter
openWriterErr == IF writer # 0 THEN "RuntimeError" ELSE "ok"
openWriterMakes == writer = 0 /\ outFile # None

\* an operation that ends by raising `e` and changes nothing else
Raise(op, e) ==
    /\ lastOp' = op /\ err' = e /\ ret' = NULL_MOVIE_FRAME_INFO
    /\ effects' = {}
    /\ UNCHANGED <<ctl, env, loop, opensOk, closesOk, hist>>

\* ------------------------------------------------------ outFile (setter)
outFileSet(value) ==
    /\ pc = "idle"
    /\ muxOut' = None
    /\ IF hasWriter
       THEN Raise("outFile", "ValueError")
       ELSE /\ outFile' = value
            /\ lastOp' = "outFile" /\ err' = "ok"
            /\ ret' = NULL_MOVIE_FRAME_INFO /\ effects' = {}
            /\ UNCHANGED <<player, nPlayers, playerOpen, writer, nWriters,
                           writerOpen, openPlayers, openWriters,
                           tempVideoFileName, status, startPts,
                           absPts, pts, lastFrame, frameIndex,
                           recentMetadata, env, loop, opensOk, closesOk,
                           hist>>

\* ---------------------------------------------------------------- record
\* record(streamOnly): _assertMediaPlayer, _openWriter unless streamOnly,
\* reset of the last frame, status, microphone
record(streamOnly) ==
    /\ pc = "idle"
    /\ muxOut' = None
    /\ (~streamOnly /\ openWriterMakes) => nWriters < MaxWriters
    /\ IF assertMediaPlayer # "ok"
       THEN Raise("record", assertMediaPlayer)
       ELSE IF ~streamOnly /\ openWriterErr # "ok"
       THEN Raise("record", openWriterErr)
       ELSE /\ IF ~streamOnly /\ openWriterMakes
               THEN /\ nWriters' = nWriters + 1
                    /\ writer' = nWriters + 1
                    /\ writerOpen' = TRUE
                    /\ openWriters' = openWriters \cup {nWriters + 1}
                    /\ tempVideoFileName' = nWriters + 1
                    /\ pts' = InvalidPts
                    /\ effects' = {"openWriter"}
               ELSE /\ UNCHANGED <<nWriters, writer, writerOpen, openWriters,
                                   tempVideoFileName, pts>>
                    /\ effects' = {}
            /\ lastFrame' = NULL_MOVIE_FRAME_INFO
            /\ status' = RECORDING
            /\ micOn' = TRUE
            /\ recFile' = writer'
            /\ recStreamOnly' = streamOnly
            /\ writtenPts' = (IF ~streamOnly /\ openWriterMakes
                              THEN InvalidPts ELSE writtenPts)
            /\ lastOp' = "record" /\ err' = "ok"
            /\ ret' = NULL_MOVIE_FRAME_INFO
            /\ UNCHANGED <<player, nPlayers, playerOpen, openPlayers,
                           outFile, startPts,
                           absPts, frameIndex, recentMetadata, srcPts,
                           loop, opensOk, closesOk>>

\* ------------------------------------------------------------------ stop
clearedWriterKept == writer
\* _closeWriter: `self._writer = None`
clearedWriter == 0

\* stop(): _assertMediaPlayer, status, close_player, _closeWriter
stop ==
    /\ pc = "idle"
    /\ muxOut' = None
    /\ IF assertMediaPlayer # "ok"
       THEN Raise("stop", assertMediaPlayer)
       ELSE /\ status' = STOPPED
            /\ playerOpen' = FALSE
            /\ openPlayers' = openPlayers \ {player}
            /\ IF writer = 0
               THEN /\ UNCHANGED <<writer, writerOpen, openWriters, startPts,
                                   pts, absPts>>
                    /\ effects' = {"closePlayer"}
               ELSE /\ writer' = clearedWriter
                    /\ writerOpen' = FALSE
                    /\ openWriters' = openWriters \ {writer}
                    /\ startPts' = InvalidPts
                    /\ pts' = InvalidPts
                    /\ absPts' = InvalidPts
                    /\ effects' = {"closePlayer", "closeWriter"}
                          \cup (IF writerOpen THEN {} ELSE {"closeClosedWriter"})
            /\ lastOp' = "stop" /\ err' = "ok"
            /\ ret' = NULL_MOVIE_FRAME_INFO
            /\ UNCHANGED <<player, nPlayers, nWriters, tempVideoFileName,
                           outFile, lastFrame, frameIndex, recentMetadata,
                           env, loop, opensOk, closesOk, recFile>>
            /\ recStreamOnly' = FALSE
            /\ writtenPts' = (IF writer = 0 THEN writtenPts ELSE InvalidPts)

\* ----------------------------------------------------------------- close
\* close(): the player is closed and forgotten, the writer is closed but
\* self._writer keeps the handle
close ==
    /\ pc = "idle"
    /\ muxOut' = None
    /\ IF ~hasPlayer
       THEN Raise("close", "RuntimeError")
       ELSE /\ player' = 0
            /\ playerOpen' = FALSE
            /\ openPlayers' = openPlayers \ {player}
            /\ writerOpen' = FALSE
            /\ openWriters' = openWriters \ {writer}
            /\ effects' = {"closePlayer"}
                  \cup (IF writer # 0 THEN {"closeWriter"} ELSE {})
                  \cup (IF writer # 0 /\ ~writerOpen
                        THEN {"closeClosedWriter"} ELSE {})
            /\ closesOk' = closesOk + 1
            /\ lastOp' = "close" /\ err' = "ok"
            /\ ret' = NULL_MOVIE_FRAME_INFO
            /\ UNCHANGED <<nPlayers, writer, nWriters, tempVideoFileName,
                           status, outFile, startPts, absPts, pts, lastFrame,
                           frameIndex, recentMetadata, env, loop, opensOk,
                           hist>>

\* ------------------------------------------------------------------ save
\* save(filename): the status check, _renderVideo (which muxes the temporary
\* files into self._outFile), the assignment of _outFile, os.path.getsize.
\* muxOk: whether the muxer writes its output or raises; it raises when
\* there is no temporary video file to read (_tempVideoFileName is u'').
\* exists: whether a file is found at `filename` when it is not the file the
\* muxer just wrote.
save(filename, muxOk, exists) ==
    /\ pc = "idle"
    /\ muxOut' = (IF notStopped THEN None ELSE outFile)
    /\ IF notStopped
       THEN Raise("save", "RuntimeError")
       ELSE IF outFile = None
       THEN Raise("save", "RuntimeError")   \* _renderVideo returned False
       ELSE /\ lastOp' = "save"
            /\ ret' = NULL_MOVIE_FRAME_INFO
            /\ effects' = {"mux"}
            /\ IF ~(muxOk /\ tempVideoFileName # 0)
               THEN /\ err' = "MuxError"
                    /\ UNCHANGED outFile
               ELSE /\ outFile' = filename
                    /\ err' = (IF filename = outFile \/ exists
                               THEN "ok" ELSE "FileNotFoundError")
            /\ UNCHANGED <<player, nPlayers, playerOpen, writer, nWriters,
                           writerOpen, openPlayers, openWriters,
                           tempVideoFileName, status, startPts,
                           absPts, pts, lastFrame, frameIndex,
                           recentMetadata, micOn, srcPts, loop,
                           opensOk, closesOk, hist>>

\* ------------------------------------------- entering the polling loop
\* _enqueueFrame up to `tStart = getTime()`: the metadata is refreshed and
\* the loop starts with no time elapsed and no poll made
enterLoop(caller, t) ==
    /\ recentMetadata' = "metadata"
    /\ pc' = caller /\ timeout' = t /\ elapsed' = 0 /\ polls' = 0
    /\ lastOp' = caller /\ err' = "running"
    /\ ret' = NULL_MOVIE_FRAME_INFO /\ effects' = {} /\ muxOut' = None
    /\ UNCHANGED <<writer, nWriters, writerOpen, openWriters,
                   tempVideoFileName, status,
                   outFile, startPts, absPts, pts, lastFrame, frameIndex,
                   env, opensOk, closesOk, hist>>

\* open(), up to the polling loop of its _enqueueFrame(timeout=1.0) call
open ==
    /\ pc = "idle"
    /\ nPlayers < MaxOpens
    /\ openWriterMakes => nWriters < MaxWriters
    /\ IF hasPlayer
       THEN Raise("open", "RuntimeError") /\ muxOut' = None
       ELSE /\ nPlayers' = nPlayers + 1
            /\ player' = nPlayers + 1
            /\ playerOpen' = TRUE
            /\ openPlayers' = openPlayers \cup {nPlayers + 1}
            /\ enterLoop("open", OpenTimeoutTicks)

\* getVideoFrame(timeout), up to the polling loop of its _enqueueFrame call
getVideoFrame(t) ==
    /\ pc = "idle"
    /\ IF assertMediaPlayer # "ok"
       THEN Raise("getVideoFrame", assertMediaPlayer) /\ muxOut' = None
       ELSE /\ enterLoop("getVideoFrame", t)
            /\ UNCHANGED <<player, nPlayers, playerOpen, openPlayers>>

\* ------------------------------------------------------------ the loop
\* the methods that call _enqueueFrame
Callers == {"open", "getVideoFrame"}

\* `timedOut = (getTime() - tStart) < timeout`, for a clock that moved by dt
timedOutAfter(dt) == Min(elapsed + dt, MaxElapsed) < timeout

latchStartNever == FALSE
\* the first frame of a recording latches the start timestamp
latchStart == lastFrame = NULL_MOVIE_FRAME_INFO

\* the timestamps a frame pulled at absolute time t, in the current status
newStartPts(t) ==
    IF status = RECORDING
    THEN (IF latchStart THEN t ELSE startPts)
    ELSE InvalidPts
newPts(t) ==
    IF status = RECORDING THEN t - newStartPts(t) ELSE InvalidPts

\* _writeFrame pushes the frame to the writer
writesFrame == hasWriter /\ status = RECORDING

\* what is left of the calling method once _enqueueFrame is over: open() goes
\* on to _openWriter, getVideoFrame() returns self._lastFrame.  ptsNow is
\* _pts as _enqueueFrame leaves it, exc the exception _enqueueFrame raised.
finish(ptsNow, eff, exc) ==
    /\ pc' = "idle"
    /\ lastOp' = pc
    /\ timeout' = 0 /\ elapsed' = 0 /\ polls' = 0
    /\ muxOut' = None
    /\ UNCHANGED <<player, nPlayers, playerOpen, openPlayers, outFile,
                   frameIndex, recentMetadata, micOn, closesOk, recFile,
                   recStreamOnly>>
    /\ writtenPts' = (IF exc = "ok" /\ pc = "open" /\ openWriterMakes
                      THEN InvalidPts
                      ELSE IF "writeFrame" \in eff THEN ptsNow
                      ELSE writtenPts)
    /\ IF exc # "ok"
       THEN /\ err' = exc /\ ret' = NULL_MOVIE_FRAME_INFO
            /\ pts' = ptsNow /\ effects' = eff
            /\ UNCHANGED <<writer, nWriters, writerOpen, openWriters,
                           tempVideoFileName, opensOk>>
       ELSE IF pc = "open"
       THEN /\ err' = openWriterErr
            /\ ret' = NULL_MOVIE_FRAME_INFO
            /\ opensOk' = (IF openWriterErr = "ok"
                           THEN opensOk + 1 ELSE opensOk)
            /\ IF openWriterMakes
               THEN /\ nWriters' = nWriters + 1
                    /\ writer' = nWriters + 1
                    /\ writerOpen' = TRUE
                    /\ openWriters' = openWriters \cup {nWriters + 1}
                    /\ tempVideoFileName' = nWriters + 1
                    /\ pts' = InvalidPts
                    /\ effects' = eff \cup {"openWriter"}
               ELSE /\ UNCHANGED <<nWriters, writer, writerOpen, openWriters,
                                   tempVideoFileName>>
                    /\ pts' = ptsNow
                    /\ effects' = eff
       ELSE /\ err' = "ok"
            /\ ret' = lastFrame'
            /\ pts' = ptsNow /\ effects' = eff
            /\ UNCHANGED <<writer, nWriters, writerOpen, openWriters,
                           tempVideoFileName, opensOk>>

\* an iteration that finds no frame and goes round again
enqueueFrameSpin(dt) ==
    /\ pc \in Callers
    /\ ~timedOutAfter(dt)
    /\ elapsed' = Min(elapsed + dt, MaxElapsed)
    /\ polls' = Min(polls + 1, MaxPolls)
    /\ effects' = {}
    /\ UNCHANGED <<ctl, env, pc, timeout, lastOp, err, ret, muxOut, opensOk,
                   closesOk, hist>>

\* an iteration that sets timedOut: the loop ends and _enqueueFrame returns
\* False, whether get_frame() had a frame (avail, stamped t) or not
enqueueFrameTimedOut(dt, avail, t) ==
    /\ pc \in Callers
    /\ timedOutAfter(dt)
    /\ srcPts' = (IF avail THEN t ELSE srcPts)
    /\ UNCHANGED <<status, startPts, absPts, lastFrame>>
    /\ finish(pts, {"timedOut"} \cup (IF avail THEN {"gotFrame"} ELSE {}),
              "ok")

\* an iteration that gets a frame stamped t with timedOut unset: the loop is
\* left by `break` and the frame is processed.  eof: get_frame() reported
\* 'eof' with it.  wfail: write_frame raises when handed a closed writer.
enqueueFrameDeliver(dt, t, eof, wfail) ==
    /\ pc \in Callers
    /\ ~timedOutAfter(dt)
    /\ srcPts' = t
    /\ absPts' = t
    /\ startPts' = newStartPts(t)
    /\ lastFrame' = MovieFrame(frameIndex, t)
    /\ LET raised == writesFrame /\ ~writerOpen /\ wfail
       IN  /\ status' = (IF eof /\ ~raised THEN STOPPING ELSE status)
           /\ finish(newPts(t),
                     {"gotFrame", "delivered"}
                       \cup (IF writesFrame THEN {"writeFrame"} ELSE {})
                       \cup (IF writesFrame /\ ~writerOpen
                             THEN {"writeClosedWriter"} ELSE {}),
                     IF raised THEN "WriterError" ELSE "ok")

\* --------------------------------------------------------------- __del__
delSkipsWriter ==
    /\ pc = "idle"
    /\ pc' = "deleted"
    /\ playerOpen' = FALSE
    /\ openPlayers' = openPlayers \ {player}
    /\ effects' = (IF player # 0 THEN {"closePlayer"} ELSE {})
    /\ lastOp' = "del" /\ err' = "ok"
    /\ ret' = NULL_MOVIE_FRAME_INFO /\ muxOut' = None
    /\ UNCHANGED <<player, nPlayers, writer, nWriters, writerOpen,
                   openWriters, tempVideoFileName,
                   status, outFile, startPts, absPts, pts, lastFrame,
                   frameIndex, recentMetadata, env, timeout, elapsed, polls,
                   opensOk, closesOk, hist>>
\* __del__: close_player() on the held player and close() on the held
\* writer, whether or not they were closed before; the handles stay
del ==
    /\ pc = "idle"
    /\ pc' = "deleted"
    /\ playerOpen' = FALSE
    /\ openPlayers' = openPlayers \ {player}
    /\ writerOpen' = FALSE
    /\ openWriters' = openWriters \ {writer}
    /\ effects' = (IF player # 0 THEN {"closePlayer"} ELSE {})
          \cup (IF writer # 0 THEN {"closeWriter"} ELSE {})
          \cup (IF writer # 0 /\ ~writerOpen
                THEN {"closeClosedWriter"} ELSE {})
    /\ lastOp' = "del" /\ err' = "ok"
    /\ ret' = NULL_MOVIE_FRAME_INFO /\ muxOut' = None
    /\ UNCHANGED <<player, nPlayers, writer, nWriters, tempVideoFileName,
                   status, outFile, startPts, absPts, pts, lastFrame,
                   frameIndex, recentMetadata, env, timeout, elapsed, polls,
                   opensOk, closesOk, hist>>

\* the timestamps the source may put on its next frame
NextStamps == srcPts .. Min(srcPts + 1, MaxPts)

\* write_frame on a writer that close() has finalized may raise or not
WriteFailures == IF writesFrame /\ ~writerOpen THEN BOOLEAN ELSE {FALSE}

Next ==
    \/ \E v \in Paths \cup {None} : outFileSet(v)
    \/ open
    \/ \E s \in BOOLEAN : record(s)
    \/ \E t \in Timeouts : getVideoFrame(t)
    \/ \E dt \in 0 .. 1 : enqueueFrameSpin(dt)
    \/ \E dt \in 0 .. 1, avail \in BOOLEAN, t \in NextStamps :
          enqueueFrameTimedOut(dt, avail, t)
    \/ \E dt \in 0 .. 1, t \in NextStamps, eof \in BOOLEAN,
          wfail \in WriteFailures :
          enqueueFrameDeliver(dt, t, eof, wfail)
    \/ stop
    \/ close
    \/ del
    \/ \E f \in Paths, muxOk \in BOOLEAN, exists \in BOOLEAN :
          save(f, muxOk, exists)

Spec == Init /\ [][Next]_vars

\* =================================================================== C1
\* C1: record() called while no player is held raises a not-ready error and
\* open() called while a player is held raises a misuse error; either way
\* the controller is left as it was.
C1_RecordBeforeOpenAndOpenTwiceRejected ==
    [][ /\ \A s \in BOOLEAN :
             (record(s) /\ player = 0)
                => (err' \in NotReadyErrors /\ UNCHANGED ctl)
        /\ (open /\ player # 0)
             => (err' \in MisuseErrors /\ pc' = "idle" /\ UNCHANGED ctl)
      ]_vars

\* record() has just been rejected for want of a player
C1_Witness ==
    /\ lastOp = "record" /\ err = "PlayerNotAvailableError" /\ player = 0

\* =================================================================== C2
\* C2: save() called in a status other than STOPPED raises and does not
\* reach the muxer; the muxer runs only in a save() made in status STOPPED.
C2_SaveOnlyWhenStopped ==
    /\ (lastOp = "save" /\ status # STOPPED)
          => (err \in MisuseErrors /\ "mux" \notin effects)
    /\ "mux" \in effects => (lastOp = "save" /\ status = STOPPED)

\* save() has just been rejected in a status other than STOPPED, with an
\* output path set
C2_Witness ==
    /\ lastOp = "save" /\ status \in {NOT_STARTED, RECORDING, STOPPING}
    /\ outFile # None /\ err = "RuntimeError"

\* =================================================================== C3
\* C3 (as claimed): recordingTime is valid only while the status is
\* RECORDING; right after any successful stop() it is the negative sentinel.
C3_RecordingTimeResetByStop ==
    (lastOp = "stop" /\ err = "ok") => recordingTime = InvalidPts

\* =================================================================== C4
\* C4: a frame that getVideoFrame delivers while the status is RECORDING
\* gets recordingTime 0 if it is the first frame since record(), and
\* otherwise a recordingTime that is not less than the one before it nor
\* than the recording time of the frame delivered before it.
C4_RecordingTimeStartsAtZeroAndGrows ==
    [][ (pc = "getVideoFrame" /\ status = RECORDING /\ "delivered" \in effects')
          => IF lastFrame = NULL_MOVIE_FRAME_INFO
             THEN recordingTime' = 0
             ELSE /\ recordingTime' >= recordingTime
                  /\ recordingTime' >= lastFrame.absTime - startPts
                  /\ recordingTime' >= 0
      ]_vars

\* a later frame of a recording has been delivered, later than the first by
\* the timestamps of the source
C4_Witness ==
    /\ lastOp = "getVideoFrame" /\ "delivered" \in effects
    /\ status = RECORDING /\ recordingTime > 0

\* =================================================================== C5
\* C5 (as claimed): a getVideoFrame call whose pull timed out without
\* getting a frame from the source returns the null frame and raises nothing.
C5_TimeoutReturnsNullFrame ==
    (lastOp = "getVideoFrame" /\ pc = "idle"
        /\ "timedOut" \in effects /\ "gotFrame" \notin effects)
      => (err = "ok" /\ ret = NULL_MOVIE_FRAME_INFO)

\* =================================================================== C6
\* C6 (as claimed): with timeout <= 0 the loop is over after one poll that
\* found no frame, and with timeout > 0 the loop is over once a poll has
\* been made with the elapsed time at or past the timeout.
C6_PollingLoopBounded ==
    pc # "idle" =>
        /\ timeout <= 0 => polls = 0
        /\ timeout > 0 => (polls = 0 \/ elapsed < timeout)

\* =================================================================== C7
\* C7 (as claimed): when open() has returned without an exception the camera
\* is ready and a first frame has been pulled: lastFrame is a frame and
\* streamTime a valid timestamp.
C7_OpenReturnsWithFirstFrame ==
    (lastOp = "open" /\ err = "ok")
      => (isReady /\ ~lastFrame.isNull /\ streamTime >= 0)

\* =================================================================== C8
\* C8 (as claimed): open() returns without an exception at most once in the
\* life of a controller.
C8_OpenSucceedsAtMostOnce == opensOk <= 1

\* C8 (amended): open() is rejected with a misuse error while a player is
\* held, so each open() that succeeded after another one was preceded by a
\* close() of its own: successful opens exceed successful closes by at most
\* one.
C8_OpenSucceedsOncePerClose ==
    opensOk <= closesOk + 1

\* open() has succeeded a second time, after a close()
C8_Witness == opensOk = 2 /\ closesOk >= 1 /\ lastOp = "open" /\ err = "ok"

\* =================================================================== C9
\* C9 (as claimed): between public operations a writer is held only while
\* the status is RECORDING.
C9_WriterOnlyWhileRecording ==
    (pc = "idle" /\ hasWriter) => status = RECORDING

\* ================================================================== C10
\* C10 (as claimed): no step changes the output path while a writer is held.
C10_OutFileFixedWhileWriterHeld ==
    [][ writer # 0 => outFile' = outFile ]_vars

\* ===================================================================== C11
\* C11: status becomes STOPPING only by a step taken while status is
\* RECORDING, and STOPPED is left only by a record() that sets RECORDING.
C11_StoppingOnlyFromRecording ==
    [][ /\ (status' = STOPPING /\ status # STOPPING) => status = RECORDING
        /\ (status = STOPPED /\ status' # STOPPED)
             => (status' = RECORDING /\ lastOp' = "record")
      ]_vars

\* ===================================================================== C12
\* C12: a stop() made with a player held succeeds from any status; after it
\* status is STOPPED and no writer handle is held, and the writer held before
\* it, if any, had close() called on it by this stop().
C12_StopLeavesStoppedWithoutWriter ==
    [][ (stop /\ player # 0)
          => /\ err' = "ok"
             /\ status' = STOPPED
             /\ writer' = 0 /\ ~writerOpen'
             /\ (writer # 0) <=> ("closeWriter" \in effects')
      ]_vars

C12_Witness ==
    /\ lastOp = "stop" /\ err = "ok" /\ "closeWriter" \in effects
    /\ status = STOPPED /\ writer = 0

\* ===================================================================== C13
\* C13: after a successful stop() the microphone is not capturing.
C13_MicrophoneStoppedByStop ==
    (lastOp = "stop" /\ err = "ok") => ~micOn

\* ===================================================================== C14
\* C14: once record() has been called, the video file a successful save()
\* handed to the muxer is the file written by the most recent record()
\* session.
C14_SaveMuxesLatestRecording ==
    ("mux" \in effects /\ err = "ok" /\ recFile # NoRecording)
      => tempVideoFileName = recFile

\* ===================================================================== C15
\* C15: a save(path) made while status is STOPPED, whose muxer run does not
\* fail, returns without error after handing the muxer `path` as its output.
C15_SaveWritesToGivenPath ==
    (lastOp = "save" /\ status = STOPPED /\ err # "MuxError")
      => (err = "ok" /\ "mux" \in effects /\ muxOut = outFile)

\* ===================================================================== C16
\* C16: between a record(streamOnly=True) and the next stop() or
\* record(streamOnly=False) no frame is pushed to a writer.
C16_StreamOnlySessionWritesNothing ==
    recStreamOnly => "writeFrame" \notin effects

\* ===================================================================== C17
\* C17: streamTime never decreases.
C17_StreamTimeNeverDecreases ==
    [][ streamTime' >= streamTime ]_vars

\* ===================================================================== C18
\* C18: close() without a player fails with a misuse error and changes
\* nothing; close() with a player succeeds, leaves no player (isReady is
\* false) and no open writer, having called close() on the writer it held.
C18_CloseReleasesPlayerAndWriter ==
    [][ close
          => IF player = 0
             THEN err' \in MisuseErrors /\ UNCHANGED ctl
             ELSE /\ err' = "ok"
                  /\ player' = 0 /\ ~isReady'
                  /\ ~writerOpen'
                  /\ writer # 0 => "closeWriter" \in effects'
      ]_vars

C18_Witness ==
    /\ lastOp = "close" /\ err = "ok" /\ "closeWriter" \in effects
    /\ player = 0 /\ writer # 0 /\ ~writerOpen

\* ===================================================================== C19
\* C19: each delivered frame carries a frame index strictly greater than
\* the index of the frame delivered before it.
C19_FrameIndexStrictlyIncreases ==
    [][ ("delivered" \in effects' /\ ~lastFrame.isNull)
          => lastFrame'.frameIndex > lastFrame.frameIndex
      ]_vars

\* ===================================================================== C20
\* C20: a frame obtained from the source is delivered: it becomes lastFrame
\* and its timestamp becomes streamTime.
C20_ObtainedFrameIsDelivered ==
    "gotFrame" \in effects
      => /\ "delivered" \in effects
         /\ ~lastFrame.isNull
         /\ streamTime = lastFrame.absTime

\* ===================================================================== C21
\* C21: no open player and no open writer is ever one the controller no
\* longer holds, and once __del__ has run every player and every writer that
\* was made has been closed.
C21_TeardownReleasesEverything ==
    /\ openPlayers \subseteq {player}
    /\ openWriters \subseteq {writer}
    /\ pc = "deleted" => (openPlayers = {} /\ openWriters = {})

C21_Witness ==
    /\ pc = "deleted" /\ nPlayers = 2 /\ nWriters = 2
    /\ {"closePlayer", "closeWriter"} \subseteq effects
    /\ "closeClosedWriter" \notin effects

\* ===================================================================== C22
\* C22: an operation that ends with a misuse or not-ready error leaves
\* status, the player and writer handles, the output path and the timestamps
\* as they were before the call (before an open() that got as far as its
\* polling loop no player was held).
C22_RejectedOperationChangesNothing ==
    [][ err' \in MisuseErrors \cup NotReadyErrors
          => /\ UNCHANGED <<status, writer, outFile, startPts, absPts, pts>>
             /\ player' = (IF pc = "open" THEN 0 ELSE player)
      ]_vars

\* ===================================================================== C23
\* C23: a frame is pushed only to a writer that has not been closed.
C23_WriteOnlyToOpenWriter ==
    [][ "writeFrame" \in effects' => writer \in openWriters ]_vars

\* ===================================================================== C24
\* C24: close() is called only on a writer that has not been closed before.
C24_WriterClosedAtMostOnce ==
    [][ "closeWriter" \in effects' => writer \in openWriters ]_vars

\* ===================================================================== C25
\* C25: a timestamp pushed to a writer is not negative and not smaller than
\* the timestamp pushed to the same writer before it.
C25_WrittenTimestampsNonDecreasing ==
    [][ "writeFrame" \in effects'
          => (pts' >= 0 /\ pts' >= writtenPts)
      ]_vars

====
